---- MODULE Spec2Model ----
(***************************************************************************)
(* Hacker Stories (src/src/App.js): the stories reducer, the search term   *)
(* persisted in localStorage, the query URL set on submit, and the fetch   *)
(* effect with its asynchronous completion.                                *)
(*                                                                         *)
(* Spec        the running App: user events, React effects, completions.   *)
(* SpecReducer storiesReducer under arbitrary sequences of dispatches.     *)
(***************************************************************************)
EXTENDS Integers, Sequences, FiniteSets, TLC

VARIABLES
    storage,        \* localStorage: a function from the stored keys to strings
    searchTerm,     \* App state: the search term shown in the input
    url,            \* App state: the query URL
    stories,        \* reducer state: [data, isLoading, isError]
    pendingEffects, \* effects scheduled by the last commit, in declaration order
    requests,       \* the GET requests issued so far, in issue order
    trace,          \* history: the dispatches and GETs made, in program order
    lastEvent,      \* history: the handler, effect or callback that ran last
    error           \* TRUE once the reducer has thrown

vars == <<storage, searchTerm, url, stories, pendingEffects, requests, trace,
          lastEvent, error>>

----------------------------------------------------------------------------
(* Bounds *)

MaxRequests == 2   \* requests issued per page load
MaxHits == 3       \* length of a dispatched payload (reducer specification)
MaxID == 2         \* objectIDs are 1..MaxID

(* Program constants *)

API_ENDPOINT == "https://hn.algolia.com/api/v1/search?query="

SearchKey == "search"

DefaultTerm == "React"

----------------------------------------------------------------------------
(* Input domains *)

\* values of event.target.value, and of a stored search term
Terms == {"", "React", "Rust"}

\* story records: the identifier and one more field; one record per identifier,
\* and a second record for identifier 1 that differs in the other field
Story ==
    {[objectID |-> id, title |-> "a"] : id \in 1..MaxID}
        \cup {[objectID |-> 1, title |-> "b"]}

RECURSIVE SeqsUpTo(_, _)
SeqsUpTo(S, n) ==
    IF n = 0 THEN {<<>>}
    ELSE LET shorter == SeqsUpTo(S, n - 1)
         IN  shorter \cup {Append(s, x) : s \in {t \in shorter : Len(t) = n - 1}, x \in S}

\* payloads dispatched to the reducer on its own
Payloads == SeqsUpTo(Story, MaxHits)

\* the hits arrays the search API answers with
ServerHits ==
    { << [objectID |-> 1, title |-> "a"], [objectID |-> 1, title |-> "b"] >>,
      << [objectID |-> 2, title |-> "a"] >> }

\* contents of localStorage when the page loads
InitialStorages ==
    { [k \in {} |-> ""] } \cup { [k \in {SearchKey} |-> t] : t \in Terms }

Last(s) == s[Len(s)]

----------------------------------------------------------------------------
(* storiesReducer *)

InitialStories == [data |-> <<>>, isLoading |-> FALSE, isError |-> FALSE]

\* the outcome of `throw new Error()`
Thrown == [threw |-> TRUE]

ActionTypes ==
    {"STORIES_FETCH_INIT", "STORIES_FETCH_SUCCESS", "STORIES_FETCH_FAILURE",
     "REMOVE_STORY"}

FetchInitCase_KeepsError(state) ==
    [state EXCEPT !.isLoading = TRUE]

\* case 'STORIES_FETCH_INIT'
FetchInitCase(state) ==
    [state EXCEPT !.isLoading = TRUE, !.isError = FALSE]

FetchSuccessCase_Appends(state, action) ==
    [state EXCEPT !.isLoading = FALSE, !.isError = FALSE,
                  !.data = state.data \o action.payload]

FetchSuccessCase_KeepsLoading(state, action) ==
    [state EXCEPT !.isError = FALSE, !.data = action.payload]

\* case 'STORIES_FETCH_SUCCESS'
FetchSuccessCase(state, action) ==
    [state EXCEPT !.isLoading = FALSE, !.isError = FALSE, !.data = action.payload]

FetchFailureCase_KeepsLoading(state) ==
    [state EXCEPT !.isError = TRUE]

FetchFailureCase_DropsData(state) ==
    [state EXCEPT !.isLoading = FALSE, !.isError = TRUE, !.data = <<>>]

\* case 'STORIES_FETCH_FAILURE'
FetchFailureCase(state) ==
    [state EXCEPT !.isLoading = FALSE, !.isError = TRUE]

RemoveStoryCase_WholeRecord(state, action) ==
    [state EXCEPT !.data =
        SelectSeq(state.data, LAMBDA story : action.payload # story)]

RemoveStoryCase_ClearsError(state, action) ==
    [state EXCEPT !.isError = FALSE,
                  !.data = SelectSeq(state.data,
                      LAMBDA story : action.payload.objectID # story.objectID)]

\* case 'REMOVE_STORY': state.data.filter(...)
RemoveStoryCase(state, action) ==
    [state EXCEPT !.data =
        SelectSeq(state.data,
                  LAMBDA story : action.payload.objectID # story.objectID)]

storiesReducer_DefaultReturnsState(state, action) ==
    CASE action.type = "STORIES_FETCH_INIT" -> FetchInitCase(state)
      [] action.type = "STORIES_FETCH_SUCCESS" -> FetchSuccessCase(state, action)
      [] action.type = "STORIES_FETCH_FAILURE" -> FetchFailureCase(state)
      [] action.type = "REMOVE_STORY" -> RemoveStoryCase(state, action)
      [] OTHER -> state

storiesReducer(state, action) ==
    CASE action.type = "STORIES_FETCH_INIT" -> FetchInitCase(state)
      [] action.type = "STORIES_FETCH_SUCCESS" -> FetchSuccessCase(state, action)
      [] action.type = "STORIES_FETCH_FAILURE" -> FetchFailureCase(state)
      [] action.type = "REMOVE_STORY" -> RemoveStoryCase(state, action)
      [] OTHER -> Thrown

\* dispatchStories: the reducer's result becomes the state; a throw is fatal
dispatchStories(action) ==
    LET next == storiesReducer(stories, action)
    IN  IF next = Thrown
        THEN /\ error' = TRUE
             /\ stories' = stories
        ELSE /\ error' = error
             /\ stories' = next

----------------------------------------------------------------------------
(* localStorage and useSemiPersistentState *)

\* localStorage.getItem: <<>> for null, <<s>> for the stored string s
getItem(store, key) ==
    IF key \in DOMAIN store THEN <<store[key]>> ELSE <<>>

setItem(store, key, value) ==
    [k \in DOMAIN store \cup {key} |-> IF k = key THEN value ELSE store[k]]

useSemiPersistentState_NullOnly(store, key, initialState) ==
    LET item == getItem(store, key)
    IN  IF item = <<>> THEN initialState ELSE item[1]

useSemiPersistentState_IgnoresStorage(store, key, initialState) == initialState

\* `localStorage.getItem(key) || initialState`: null and "" are both falsy
useSemiPersistentState(store, key, initialState) ==
    LET item == getItem(store, key)
    IN  IF item = <<>> THEN initialState
        ELSE IF item[1] = "" THEN initialState
        ELSE item[1]

----------------------------------------------------------------------------
(* App *)

\* `${API_ENDPOINT}${searchTerm}`
QueryUrl(term) == API_ENDPOINT \o term

AppMount_NoFetchOnMount(store) ==
    LET term == useSemiPersistentState(store, SearchKey, DefaultTerm)
    IN  [searchTerm     |-> term,
         url            |-> QueryUrl(term),
         stories        |-> InitialStories,
         pendingEffects |-> <<"persist">>]

\* the first render of App: state of every hook, and the effects of a mount
AppMount(store) ==
    LET term == useSemiPersistentState(store, SearchKey, DefaultTerm)
    IN  [searchTerm     |-> term,
         url            |-> QueryUrl(term),
         stories        |-> InitialStories,
         pendingEffects |-> <<"persist", "fetch">>]

Init ==
    \E store \in InitialStorages :
        /\ storage = store
        /\ searchTerm = AppMount(store).searchTerm
        /\ url = AppMount(store).url
        /\ stories = AppMount(store).stories
        /\ pendingEffects = AppMount(store).pendingEffects
        /\ requests = <<>>
        /\ trace = <<>>
        /\ lastEvent = "mount"
        /\ error = FALSE

\* the user reloads the page: App is mounted again over the same localStorage,
\* and the callbacks of the old page's requests are gone
Reload ==
    /\ pendingEffects = <<>>
    /\ searchTerm' = AppMount(storage).searchTerm
    /\ url' = AppMount(storage).url
    /\ stories' = AppMount(storage).stories
    /\ pendingEffects' = AppMount(storage).pendingEffects
    /\ requests' = <<>>
    /\ trace' = <<>>
    /\ lastEvent' = "mount"
    /\ error' = FALSE
    /\ UNCHANGED storage

handleSearchInput_SetsUrl(value) ==
    /\ pendingEffects = <<>>
    /\ searchTerm' = value
    /\ url' = QueryUrl(value)
    /\ pendingEffects' = IF value # searchTerm THEN <<"persist">> ELSE <<>>
    /\ lastEvent' = "input"
    /\ UNCHANGED <<storage, stories, requests, trace, error>>

\* onChange of the input: setSearchTerm(event.target.value); the re-render
\* schedules the write-back effect when the value changed
handleSearchInput(value) ==
    /\ pendingEffects = <<>>
    /\ searchTerm' = value
    /\ pendingEffects' = IF value # searchTerm THEN <<"persist">> ELSE <<>>
    /\ lastEvent' = "input"
    /\ UNCHANGED <<storage, url, stories, requests, trace, error>>

SubmitDisabled_Never == FALSE

\* <button type="submit" disabled={!searchTerm}>
SubmitDisabled == searchTerm = ""

\* onSubmit of the form: setUrl(`${API_ENDPOINT}${searchTerm}`); the re-render
\* gives a new handleFetchStories, and so schedules the fetch effect, only
\* when url changed
handleSearchSubmit ==
    /\ pendingEffects = <<>>
    /\ ~SubmitDisabled
    /\ Len(requests) < MaxRequests
    /\ url' = QueryUrl(searchTerm)
    /\ pendingEffects' = IF url' # url THEN <<"fetch">> ELSE <<>>
    /\ lastEvent' = "submit"
    /\ UNCHANGED <<storage, searchTerm, stories, requests, trace, error>>

PersistEffect_NoWrite ==
    /\ pendingEffects # <<>>
    /\ Head(pendingEffects) = "persist"
    /\ pendingEffects' = Tail(pendingEffects)
    /\ lastEvent' = "persist"
    /\ UNCHANGED <<storage, searchTerm, url, stories, requests, trace, error>>

\* the effect of useSemiPersistentState: localStorage.setItem(key, value)
PersistEffect ==
    /\ pendingEffects # <<>>
    /\ Head(pendingEffects) = "persist"
    /\ storage' = setItem(storage, SearchKey, searchTerm)
    /\ pendingEffects' = Tail(pendingEffects)
    /\ lastEvent' = "persist"
    /\ UNCHANGED <<searchTerm, url, stories, requests, trace, error>>

DispatchEntry(action, req) == [op |-> "dispatch", action |-> action, req |-> req]

GetEntry(u, req) == [op |-> "get", url |-> u, req |-> req]

\* handleFetchStories up to its await: dispatch STORIES_FETCH_INIT, then
\* axios.get(url)
FetchEffect ==
    /\ pendingEffects # <<>>
    /\ Head(pendingEffects) = "fetch"
    /\ Len(requests) < MaxRequests
    /\ LET action == [type |-> "STORIES_FETCH_INIT"]
           req == Len(requests) + 1
       IN  /\ dispatchStories(action)
           /\ requests' = Append(requests,
                                 [url |-> url, status |-> "pending", hits |-> <<>>])
           /\ trace' = trace \o <<DispatchEntry(action, req), GetEntry(url, req)>>
    /\ pendingEffects' = Tail(pendingEffects)
    /\ lastEvent' = "fetch"
    /\ UNCHANGED <<storage, searchTerm, url>>

FetchResolve_Sequenced(req, hits) ==
    /\ pendingEffects = <<>>
    /\ req \in DOMAIN requests
    /\ requests[req].status = "pending"
    /\ IF req = Len(requests)
       THEN LET action == [type |-> "STORIES_FETCH_SUCCESS", payload |-> hits]
            IN  /\ dispatchStories(action)
                /\ trace' = Append(trace, DispatchEntry(action, req))
       ELSE UNCHANGED <<stories, error, trace>>
    /\ requests' = [requests EXCEPT ![req].status = "resolved", ![req].hits = hits]
    /\ lastEvent' = "resolve"
    /\ UNCHANGED <<storage, searchTerm, url, pendingEffects>>

\* handleFetchStories after its await, the request resolved: dispatch
\* STORIES_FETCH_SUCCESS with result.data.hits
FetchResolve(req, hits) ==
    /\ pendingEffects = <<>>
    /\ req \in DOMAIN requests
    /\ requests[req].status = "pending"
    /\ LET action == [type |-> "STORIES_FETCH_SUCCESS", payload |-> hits]
       IN  /\ dispatchStories(action)
           /\ trace' = Append(trace, DispatchEntry(action, req))
    /\ requests' = [requests EXCEPT ![req].status = "resolved", ![req].hits = hits]
    /\ lastEvent' = "resolve"
    /\ UNCHANGED <<storage, searchTerm, url, pendingEffects>>

FetchReject_Silent(req) ==
    /\ pendingEffects = <<>>
    /\ req \in DOMAIN requests
    /\ requests[req].status = "pending"
    /\ requests' = [requests EXCEPT ![req].status = "rejected"]
    /\ lastEvent' = "reject"
    /\ UNCHANGED <<storage, searchTerm, url, pendingEffects, stories, error, trace>>

\* handleFetchStories after its await, the request rejected: the catch block
\* dispatches STORIES_FETCH_FAILURE
FetchReject(req) ==
    /\ pendingEffects = <<>>
    /\ req \in DOMAIN requests
    /\ requests[req].status = "pending"
    /\ LET action == [type |-> "STORIES_FETCH_FAILURE"]
       IN  /\ dispatchStories(action)
           /\ trace' = Append(trace, DispatchEntry(action, req))
    /\ requests' = [requests EXCEPT ![req].status = "rejected"]
    /\ lastEvent' = "reject"
    /\ UNCHANGED <<storage, searchTerm, url, pendingEffects>>

DismissableItems_AlwaysRendered ==
    {stories.data[i] : i \in DOMAIN stories.data}

\* the items that have a dismiss button: List is rendered, with one Item per
\* element of stories.data, only when isLoading is false
DismissableItems ==
    IF stories.isLoading THEN {}
    ELSE {stories.data[i] : i \in DOMAIN stories.data}

handleRemoveStory_WrongType(item) ==
    /\ pendingEffects = <<>>
    /\ item \in DismissableItems
    /\ LET action == [type |-> "REMOVE_ITEM", payload |-> item]
       IN  /\ dispatchStories(action)
           /\ trace' = Append(trace, DispatchEntry(action, 0))
    /\ lastEvent' = "remove"
    /\ UNCHANGED <<storage, searchTerm, url, pendingEffects, requests>>

\* onClick of an Item's button: handleRemoveStory(item)
handleRemoveStory(item) ==
    /\ pendingEffects = <<>>
    /\ item \in DismissableItems
    /\ LET action == [type |-> "REMOVE_STORY", payload |-> item]
       IN  /\ dispatchStories(action)
           /\ trace' = Append(trace, DispatchEntry(action, 0))
    /\ lastEvent' = "remove"
    /\ UNCHANGED <<storage, searchTerm, url, pendingEffects, requests>>

Next ==
    \/ \E value \in Terms : handleSearchInput(value)
    \/ handleSearchSubmit
    \/ PersistEffect
    \/ FetchEffect
    \/ \E req \in 1..MaxRequests : \E hits \in ServerHits : FetchResolve(req, hits)
    \/ \E req \in 1..MaxRequests : FetchReject(req)
    \/ \E item \in Story : handleRemoveStory(item)
    \/ Reload

Spec == Init /\ [][Next]_vars

\* the completion of request req: axios.get(url) resolves or rejects
CompleteRequest(req) ==
    \/ \E hits \in ServerHits : FetchResolve(req, hits)
    \/ FetchReject(req)

\* React runs every effect it has scheduled, and every request issued
\* eventually resolves or rejects
FairSpec ==
    /\ Spec
    /\ WF_vars(PersistEffect)
    /\ WF_vars(FetchEffect)
    /\ \A req \in 1..MaxRequests : SF_vars(CompleteRequest(req))

----------------------------------------------------------------------------
(* The reducer on its own: any action, in any order *)

ReducerStep(action) ==
    /\ ~error
    /\ dispatchStories(action)
    /\ lastEvent' = action.type
    /\ UNCHANGED <<storage, searchTerm, url, pendingEffects, requests, trace>>

DispatchInit == ReducerStep([type |-> "STORIES_FETCH_INIT"])

DispatchSuccess(payload) ==
    ReducerStep([type |-> "STORIES_FETCH_SUCCESS", payload |-> payload])

DispatchFailure == ReducerStep([type |-> "STORIES_FETCH_FAILURE"])

DispatchRemove(item) == ReducerStep([type |-> "REMOVE_STORY", payload |-> item])

DispatchUnknown == ReducerStep([type |-> "UNKNOWN"])

NextReducer ==
    \/ DispatchInit
    \/ \E payload \in Payloads : DispatchSuccess(payload)
    \/ DispatchFailure
    \/ \E item \in Story : DispatchRemove(item)
    \/ DispatchUnknown

\* the reducer starts from the initial state given to useReducer
InitReducer ==
    /\ Init
    /\ storage = [k \in {} |-> ""]

SpecReducer == InitReducer /\ [][NextReducer]_vars

----------------------------------------------------------------------------
(* Properties *)

Range(s) == {s[i] : i \in DOMAIN s}

\* C1: over every sequence of STORIES_FETCH_INIT, STORIES_FETCH_SUCCESS,
\* STORIES_FETCH_FAILURE and REMOVE_STORY dispatches from the initial stories
\* state, isLoading and isError are never both true.
C1_NeverLoadingAndError == ~(stories.isLoading /\ stories.isError)

\* an error flagged over data that a payload delivered: INIT or SUCCESS, then
\* FAILURE, have been dispatched
C1_Witness ==
    /\ lastEvent = "STORIES_FETCH_FAILURE"
    /\ stories.isError
    /\ ~stories.isLoading
    /\ stories.data # <<>>

\* the indices of data whose record does not have the identifier id
KeptIndices(data, id) == {i \in DOMAIN data : data[i].objectID # id}

\* result is data with exactly the records of identifier id deleted: it has
\* one element per kept index, and its k-th element is the record at the
\* k-th kept index
IsDataWithout(result, data, id) ==
    LET kept == KeptIndices(data, id)
    IN  /\ Len(result) = Cardinality(kept)
        /\ \A i \in kept :
              result[Cardinality({j \in kept : j <= i})] = data[i]

\* C2: REMOVE_STORY with an item of identifier id yields the data with exactly
\* the records of that identifier deleted, the others kept in their order, and
\* yields the data unchanged when no record has the identifier.
C2_RemoveDeletesExactlyId ==
    [][\A item \in Story :
          DispatchRemove(item) =>
              /\ IsDataWithout(stories'.data, stories.data, item.objectID)
              /\ (KeptIndices(stories.data, item.objectID) = DOMAIN stories.data
                    => stories'.data = stories.data)]_vars

\* a REMOVE_STORY has left two different records that share an identifier
C2_Witness ==
    /\ lastEvent = "REMOVE_STORY"
    /\ Len(stories.data) = 2
    /\ stories.data[1].objectID = stories.data[2].objectID
    /\ stories.data[1] # stories.data[2]

\* C3: STORIES_FETCH_FAILURE, dispatched when a request rejects, sets
\* isError=true and isLoading=false and leaves data exactly as it was.
C3_FailureKeepsData ==
    [][lastEvent' = "reject" =>
          stories' = [data |-> stories.data, isLoading |-> FALSE,
                      isError |-> TRUE]]_vars

\* a request resolved with hits, a later one rejected, and the hits are still
\* the data
C3_Witness ==
    /\ lastEvent = "reject"
    /\ Len(requests) = 2
    /\ requests[1].status = "resolved"
    /\ requests[2].status = "rejected"
    /\ stories.isError
    /\ stories.data # <<>>
    /\ stories.data = requests[1].hits

\* C4: overlapping fetches are not sequenced: whenever a request resolves, its
\* hits become the data, whether or not a later request has been issued or
\* has already completed; so the earlier request of two can complete last and
\* leave its result as the data under the later request's URL.
C4_EveryResponseApplied ==
    [][lastEvent' = "resolve" =>
          \E req \in DOMAIN requests :
              /\ requests[req].status = "pending"
              /\ requests'[req].status = "resolved"
              /\ stories'.data = requests'[req].hits]_vars

\* the position in trace of the outcome dispatched for request req
OutcomeIndex(req) ==
    CHOOSE i \in DOMAIN trace :
        /\ trace[i].op = "dispatch"
        /\ trace[i].req = req
        /\ trace[i].action.type # "STORIES_FETCH_INIT"

\* two requests for different terms were in flight at once, the later one
\* completed first, the earlier one last, and data is the earlier one's result
\* while url is the later one's
C4_Witness ==
    /\ Len(requests) = 2
    /\ requests[1].url # requests[2].url
    /\ requests[1].status = "resolved"
    /\ requests[2].status = "resolved"
    /\ requests[1].hits # requests[2].hits
    /\ OutcomeIndex(2) < OutcomeIndex(1)
    /\ lastEvent = "resolve"
    /\ url = requests[2].url
    /\ stories.data = requests[1].hits

\* the entries of trace that belong to request req
RequestTrace(req) == SelectSeq(trace, LAMBDA e : e.req = req)

\* what has to have been dispatched and sent for request req, given its status
ExpectedRequestTrace(req) ==
    << DispatchEntry([type |-> "STORIES_FETCH_INIT"], req),
       GetEntry(requests[req].url, req) >>
    \o ( CASE requests[req].status = "pending" -> <<>>
           [] requests[req].status = "resolved" ->
                << DispatchEntry([type |-> "STORIES_FETCH_SUCCESS",
                                  payload |-> requests[req].hits], req) >>
           [] requests[req].status = "rejected" ->
                << DispatchEntry([type |-> "STORIES_FETCH_FAILURE"], req) >> )

\* C5: for every request issued, STORIES_FETCH_INIT is dispatched before the
\* GET is sent; nothing more is dispatched for it while it is pending; once it
\* has resolved exactly one STORIES_FETCH_SUCCESS with its hits, and once it
\* has rejected exactly one STORIES_FETCH_FAILURE, has been dispatched for it.
C5_InitThenExactlyOneOutcome ==
    /\ \A req \in DOMAIN requests : RequestTrace(req) = ExpectedRequestTrace(req)
    /\ \A i \in DOMAIN trace :
          trace[i].op = "get" \/ trace[i].action.type # "REMOVE_STORY"
              => trace[i].req \in DOMAIN requests

\* one request has resolved and another has rejected
C5_Witness ==
    /\ Len(requests) = 2
    /\ requests[1].status = "rejected"
    /\ requests[2].status = "resolved"
    /\ Len(RequestTrace(1)) = 3
    /\ Len(RequestTrace(2)) = 3

\* C6: a keystroke changes only the search term (and schedules nothing but
\* its write-back): url, stories and the requests issued stay as they were.
\* Within one page load url changes only on a submit, to API_ENDPOINT followed
\* by the search term of that moment.
C6_UrlOnlyOnSubmit ==
    [][/\ lastEvent' = "input" =>
              /\ url' = url
              /\ stories' = stories
              /\ requests' = requests
              /\ trace' = trace
              /\ "fetch" \notin Range(pendingEffects')
       /\ (url' # url /\ lastEvent' # "mount") =>
              /\ lastEvent' = "submit"
              /\ url' = API_ENDPOINT \o searchTerm]_vars

\* the term typed differs from the term of url, and no request was issued
\* for it
C6_Witness ==
    /\ lastEvent = "input"
    /\ searchTerm = "Rust"
    /\ url = API_ENDPOINT \o "React"
    /\ Len(requests) = 1
    /\ requests[1].url = url

\* C7: no request is ever issued for, and url never is, the endpoint with an
\* empty term: a submit never happens while the search term is empty.
C7_NoEmptyTermRequest ==
    /\ url # API_ENDPOINT
    /\ \A req \in DOMAIN requests : requests[req].url # API_ENDPOINT
    /\ lastEvent = "submit" => searchTerm # ""

\* the input was cleared, "" was written back, and nothing was requested
\* for it
C7_Witness ==
    /\ searchTerm = ""
    /\ pendingEffects = <<>>
    /\ getItem(storage, SearchKey) = <<"">>
    /\ Len(requests) = 1

\* C8 (as claimed): right after a mount the search term is the value stored
\* under "search" whenever one is stored, and "React" when none is.
C8_StoredValueWhenStored ==
    lastEvent = "mount" =>
        searchTerm = IF SearchKey \in DOMAIN storage THEN storage[SearchKey]
                     ELSE "React"

\* C8: right after a mount the search term is the value stored under "search"
\* when a non-empty one is stored, and "React" when nothing or the empty
\* string is stored.
C8_NonEmptyStoredValueOrDefault ==
    lastEvent = "mount" =>
        searchTerm = IF SearchKey \in DOMAIN storage /\ storage[SearchKey] # ""
                     THEN storage[SearchKey]
                     ELSE "React"

\* mounted over a stored "Rust"
C8_Witness ==
    /\ lastEvent = "mount"
    /\ getItem(storage, SearchKey) = <<"Rust">>
    /\ searchTerm = "Rust"

\* C9: once the write-back effect has run, after the mount and after each
\* keystroke, the value stored under "search" is the search term; a submit, a
\* fetch completion and a dismissal leave localStorage as it was.
C9_StorageFollowsSearchTerm ==
    /\ []("persist" \notin Range(pendingEffects)
            => getItem(storage, SearchKey) = <<searchTerm>>)
    /\ [][lastEvent' \in {"submit", "fetch", "resolve", "reject", "remove"}
            => storage' = storage]_vars

\* a term typed after the first request has been written back
C9_Witness ==
    /\ lastEvent = "persist"
    /\ Len(requests) = 1
    /\ searchTerm = "Rust"
    /\ url # API_ENDPOINT \o "Rust"
    /\ getItem(storage, SearchKey) = <<"Rust">>

\* C10: a submit made while isError is true issues a new request: it schedules
\* the fetch effect, which dispatches STORIES_FETCH_INIT and sends the GET.
C10_ResubmitRefetches ==
    [][(lastEvent' = "submit" /\ stories.isError)
          => "fetch" \in Range(pendingEffects')]_vars

\* C11: STORIES_FETCH_SUCCESS, dispatched when a request resolves, sets
\* isLoading=false and isError=false and makes data exactly the payload,
\* whatever data was; no handler, effect or callback other than a resolve
\* changes data, except a dismissal, which only deletes the records of one
\* identifier.
C11_SuccessReplacesData ==
    [][/\ lastEvent' = "resolve" =>
              stories' = [data |-> Last(trace').action.payload,
                          isLoading |-> FALSE, isError |-> FALSE]
       /\ lastEvent' \in {"input", "submit", "persist", "fetch", "reject"} =>
              stories'.data = stories.data
       /\ lastEvent' = "remove" =>
              \E id \in 1..MaxID :
                  IsDataWithout(stories'.data, stories.data, id)]_vars

\* two requests resolved with different hits, and data is the hits of the one
\* that resolved last, with no record of the other's
C11_Witness ==
    /\ lastEvent = "resolve"
    /\ Len(requests) = 2
    /\ requests[1].status = "resolved"
    /\ requests[2].status = "resolved"
    /\ OutcomeIndex(1) < OutcomeIndex(2)
    /\ requests[1].hits # <<>>
    /\ stories.data = requests[2].hits
    /\ Range(requests[1].hits) \cap Range(stories.data) = {}

\* C12: STORIES_FETCH_INIT applied in any state sets isLoading=true and
\* isError=false and leaves data unchanged.
C12_InitKeepsData ==
    [][DispatchInit =>
          stories' = [data |-> stories.data, isLoading |-> TRUE,
                      isError |-> FALSE]]_vars

\* STORIES_FETCH_INIT was dispatched over data that a payload had delivered
C12_Witness ==
    /\ lastEvent = "STORIES_FETCH_INIT"
    /\ stories.isLoading
    /\ ~stories.isError
    /\ Len(stories.data) = MaxHits

\* C13: REMOVE_STORY applied in any state leaves isLoading and isError as they
\* were.
C13_RemoveKeepsFlags ==
    [][\A item \in Story :
          DispatchRemove(item) =>
              /\ stories'.isLoading = stories.isLoading
              /\ stories'.isError = stories.isError]_vars

\* a REMOVE_STORY was dispatched and the error flag is still set
C13_Witness ==
    /\ lastEvent = "REMOVE_STORY"
    /\ stories.isError
    /\ ~stories.isLoading
    /\ Len(stories.data) = 1

\* C14: the reducer given an action of an unrecognized type throws and
\* returns no new state, whatever the current state.
C14_UnknownActionThrows ==
    [][lastEvent' = "UNKNOWN" => (error' /\ stories' = stories)]_vars

\* the reducer threw on an unknown action while loading over delivered data
C14_Witness ==
    /\ lastEvent = "UNKNOWN"
    /\ error
    /\ stories.isLoading
    /\ stories.data # <<>>

\* the types of the actions dispatched so far
DispatchedTypes ==
    {trace[i].action.type : i \in {j \in DOMAIN trace : trace[j].op = "dispatch"}}

\* C15: in the running App the reducer never throws: every action dispatched,
\* over every sequence of keystrokes, submits, dismissals and fetch
\* completions, has one of the four recognized types.
C15_OnlyKnownActions ==
    /\ ~error
    /\ DispatchedTypes \subseteq ActionTypes

\* each of the four types has been dispatched
C15_Witness ==
    /\ DispatchedTypes = ActionTypes
    /\ ~error

\* C16: a stored "" is treated like no stored value: mounted over a stored ""
\* the search term is "React". So a page reload brings a typed (and written
\* back) term back unchanged when it is not empty, and brings "React" when the
\* input had been cleared.
C16_EmptyStoredIsDefault ==
    /\ []((lastEvent = "mount" /\ getItem(storage, SearchKey) = <<"">>)
            => searchTerm = "React")
    /\ [][lastEvent' = "mount" =>
              /\ getItem(storage, SearchKey) = <<searchTerm>>
              /\ searchTerm' = IF searchTerm = "" THEN "React" ELSE searchTerm]_vars

\* mounted over the "" that clearing the input writes
C16_Witness ==
    /\ lastEvent = "mount"
    /\ getItem(storage, SearchKey) = <<"">>
    /\ searchTerm = "React"
    /\ url = API_ENDPOINT \o "React"

\* the requests still in flight
PendingRequests == {req \in DOMAIN requests : requests[req].status = "pending"}

\* C17: whenever isLoading is true at least one request is in flight;
\* equivalently, with no request in flight isLoading is false.
C17_LoadingImpliesPending == stories.isLoading => PendingRequests # {}

\* loading for the second request after the first has completed
C17_Witness ==
    /\ stories.isLoading
    /\ PendingRequests = {2}
    /\ requests[1].status = "resolved"

\* C19: the first steps after a mount are the two mount effects, before any
\* user action or completion: the fetch effect dispatches STORIES_FETCH_INIT
\* as the first action and sends the first GET, for API_ENDPOINT followed by
\* the initial search term, with no submit; every later request follows a
\* submit.
C19_InitialFetchOnMount ==
    [][/\ lastEvent = "mount" =>
              /\ lastEvent' = "persist"
              /\ requests = <<>>
              /\ url = API_ENDPOINT \o searchTerm
       /\ (requests = <<>> /\ lastEvent' # "mount") =>
              /\ lastEvent' \in {"persist", "fetch"}
              /\ UNCHANGED <<searchTerm, url>>
       /\ (lastEvent' = "fetch" /\ requests = <<>>) =>
              /\ lastEvent = "persist"
              /\ trace = <<>>
              /\ trace' = << DispatchEntry([type |-> "STORIES_FETCH_INIT"], 1),
                             GetEntry(API_ENDPOINT \o searchTerm, 1) >>
              /\ Len(requests') = 1
       /\ (lastEvent' = "fetch" /\ requests # <<>>) => lastEvent = "submit"]_vars

\* mounted over a stored "Rust", the first request has gone out for it
C19_Witness ==
    /\ lastEvent = "fetch"
    /\ searchTerm = "Rust"
    /\ Len(requests) = 1
    /\ trace = << DispatchEntry([type |-> "STORIES_FETCH_INIT"], 1),
                  GetEntry(API_ENDPOINT \o "Rust", 1) >>

\* C20: REMOVE_STORY is dispatched only while isLoading is false, and only for
\* an item that is in the current data.
C20_RemoveOnlyWhenListShown ==
    [][lastEvent' = "remove" =>
          /\ ~stories.isLoading
          /\ Last(trace').op = "dispatch"
          /\ Last(trace').action.type = "REMOVE_STORY"
          /\ Last(trace').action.payload \in Range(stories.data)]_vars

\* an item was dismissed while another request was still in flight
C20_Witness ==
    /\ lastEvent = "remove"
    /\ ~stories.isLoading
    /\ PendingRequests # {}
    /\ Last(trace).action.type = "REMOVE_STORY"

\* nothing is loading, in flight or about to be fetched
Settled ==
    /\ ~stories.isLoading
    /\ PendingRequests = {}
    /\ "fetch" \notin Range(pendingEffects)

\* C18: when every request issued eventually resolves or rejects and the user
\* eventually stops submitting (and reloading the page), the App eventually
\* reaches, and then stays in, a state with isLoading false and no request in
\* flight.
C18_EventuallySettled ==
    <>[][lastEvent' \notin {"submit", "mount"}]_vars => <>[]Settled

\* both requests of a page load have completed and nothing is loading
C18_Witness ==
    /\ Settled
    /\ Len(requests) = 2
    /\ lastEvent \in {"resolve", "reject"}

====
